---- MODULE Spec2Model ----
(***************************************************************************)
(* Verification model of the PrometheanAI Maya bridge.                     *)
(*                                                                         *)
(* Two transports exist in the repository and both are modelled:           *)
(*   - the threaded server (scripts/promethean_maya_server.py):            *)
(*     an accept thread, one reader thread per connection, a worker        *)
(*     thread draining command_stack; specification SpecT;                 *)
(*   - the Qt server (scripts/promethean_maya_qt_server.py): slots run on  *)
(*     the host's main thread, one slot invocation is one step;            *)
(*     specification SpecQt.                                               *)
(* Both hand command text to promethean_maya.command_switch.               *)
(*                                                                         *)
(* Byte strings are sequences of symbols: a symbol stands for a run of      *)
(* ASCII bytes (a command name, an argument), NL for the newline byte. A   *)
(* TCP read can end between any two symbols. bytes.decode() keeps ASCII.   *)
(***************************************************************************)
EXTENDS Integers, Sequences, FiniteSets, TLC

\* ------------------------------------------------------------------ bounds
MaxConns == 2
MaxSends == 2
MaxWorkers == 2
MaxObjs == 5
MaxCmds == 3

Conns == 1..MaxConns
Workers == 1..MaxWorkers
NoConn == 0
Objs == 1..MaxObjs
NoObj == 0

\* ------------------------------------------------------------ byte strings
NL == "NL"
toggle_surface_snapping == <<"toggle_surface_snapping">>
get_vertex_data_cmd == "get_vertex_data_from_scene_objects "
get_vertex_data == <<get_vertex_data_cmd, "wall">>
vacate_socket_command == <<"promethean_vacate_socket">>
ignore_vacate_socket == FALSE

\* What a peer sends with one send(): a newline-terminated command line, or
\* the bare control message as send_vacate_socket_command sends it.
Menu ==
  { toggle_surface_snapping \o <<NL>>, get_vertex_data \o <<NL>>,
    vacate_socket_command }

\* The threaded server looks at a chunk only to compare it with the control
\* message, so one command line stands for all of them there.
MenuT == { toggle_surface_snapping \o <<NL>>, vacate_socket_command }

\* Python None as a reply value, and the sentinel reply text.
PyNone == "<None>"
NoneReply == "None"

\* str.split('\n')
RECURSIVE SplitNL(_)
SplitNL(s) ==
  IF \E i \in 1..Len(s) : s[i] = NL
  THEN LET i == CHOOSE j \in 1..Len(s) :
                  s[j] = NL /\ \A k \in 1..(j - 1) : s[k] # NL
       IN  <<SubSeq(s, 1, i - 1)>> \o SplitNL(SubSeq(s, i + 1, Len(s)))
  ELSE <<s>>

\* -------------------------------------------------------------- dispatcher
Fates == {"ok", "raise"}

\* The body of command_switch on one line: what it returns (msg), whether it
\* raises, how many undo chunks its handler opens without closing, and
\* whether it flips _snap_active.
\*  - toggle_surface_snapping flips _snap_active and returns nothing;
\*  - get_vertex_data_from_scene_objects calls get_triangle_positions, which
\*    opens a chunk of its own and closes it only on its normal path; fate
\*    "ok" is a name that resolves to a mesh, anything else makes a host
\*    primitive raise after the chunk was opened;
\*  - any other line is passed to mayaExec, which evaluates it as Python; no
\*    other text of this alphabet is a defined Python name, so it raises.
Handler(line, fate) ==
  IF line = toggle_surface_snapping
  THEN [raised |-> FALSE, msg |-> PyNone, leak |-> 0, toggle |-> TRUE]
  ELSE IF Len(line) >= 1 /\ line[1] = get_vertex_data_cmd
  THEN IF Len(line) >= 2 /\ fate = "ok"
       THEN [raised |-> FALSE, msg |-> "{verts}", leak |-> 0, toggle |-> FALSE]
       ELSE [raised |-> TRUE, msg |-> PyNone, leak |-> 1, toggle |-> FALSE]
  ELSE [raised |-> TRUE, msg |-> PyNone, leak |-> 0, toggle |-> FALSE]

\* command_switch as callers see it, i.e. wrapped by one_undo_chunk: the
\* wrapper opens a chunk, calls the function with the caller's arguments and
\* closes the chunk in its finally clause. The function takes exactly one
\* argument (the command text); any other arity is a TypeError.
command_switch(args, fate) ==
  IF Len(args) # 1
  THEN [raised |-> TRUE, msg |-> PyNone, leak |-> 0, toggle |-> FALSE]
  ELSE Handler(args[1], fate)

\* ---------------------------------------------------------------- state
VARIABLES
  \* network, shared by both transports
  cstate,        \* per connection: idle | pending | accepted | dropped | closed
  wire,          \* bytes sent by the peer and not yet taken by the server
  avail,         \* Qt: bytes buffered in the QTcpSocket, not yet read
  sent,          \* history: all bytes the peer has sent on the connection
  nsent,         \* number of send() calls made by peers
  peerClosed,    \* the peer has closed its end
  portOwner,     \* who listens on the port: none | self | other
  \* host
  undoDepth,     \* undo chunks opened minus undo chunks closed
  mainPc,        \* what the host's main thread is running
  snap_active,   \* promethean_maya._snap_active
  \* histories
  startLog,      \* events of server starts: vacate, sleep, bind
  log,           \* one entry per call of command_switch, in call order
  appended,      \* threaded: items in the order they were appended
  \* threaded server
  server_socket, enable_command_stack, command_stack,
  sockOpen,      \* the listening socket is bound and open
  acceptPc,      \* server_thread
  rpc,           \* connection_thread per connection
  wpc, witem,    \* execute_command_stack per worker thread
  \* Qt server
  q_server,      \* none | listening | closed | failed
  q_socket,      \* MayaServer._socket
  q_slots,       \* connections whose readyRead is connected to _read
  \* scene and dispatcher state
  scene,         \* the host's transforms: made, live, label, parent, isRef
  old_nodes_names_dict,
  ncmds,         \* number of commands dispatched so far
  cmdOut,        \* what the last dispatched command was given and did
  \* command handlers run on their own
  call,          \* the last handler call: its inputs and what it did
  assets,        \* promethean_reference tags in the scene and the placements made
  units          \* the host's linear unit and promethean_maya.units_multiplier

netVars == <<cstate, wire, avail, sent, nsent, peerClosed, portOwner>>
hostVars == <<undoDepth, mainPc, snap_active>>
histVars == <<startLog, log, appended>>
tVars == <<server_socket, enable_command_stack, command_stack, sockOpen,
           acceptPc, rpc, wpc, witem>>
qVars == <<q_server, q_socket, q_slots>>
dVars == <<call, assets, units>>
sVars == <<scene, old_nodes_names_dict, ncmds, cmdOut, dVars>>
vars == <<netVars, hostVars, histVars, tVars, qVars, sVars>>

NoItem == [data |-> <<>>, conn |-> NoConn, pos |-> 0]

\* Position in its connection's byte stream of the next byte the server takes.
StreamPos(c) == Len(sent[c]) - Len(wire[c]) - Len(avail[c])

InitShared ==
  /\ cstate = [c \in Conns |-> "idle"]
  /\ wire = [c \in Conns |-> <<>>]
  /\ avail = [c \in Conns |-> <<>>]
  /\ sent = [c \in Conns |-> <<>>]
  /\ nsent = 0
  /\ peerClosed = [c \in Conns |-> FALSE]
  /\ portOwner \in {"none", "other"}
  /\ undoDepth = 0
  /\ snap_active = FALSE
  /\ startLog = <<>>
  /\ log = <<>>
  /\ appended = <<>>
  /\ server_socket = "None"
  /\ enable_command_stack = TRUE
  /\ command_stack = <<>>
  /\ sockOpen = FALSE
  /\ acceptPc = "off"
  /\ rpc = [c \in Conns |-> "off"]
  /\ wpc = [w \in Workers |-> "off"]
  /\ witem = [w \in Workers |-> NoItem]
  /\ q_server = "none"
  /\ q_socket = NoConn
  /\ q_slots = {}

\* ------------------------------------------------------------------ scene
\* Display labels of transforms.
Labels == {"a", "b", "m"}

\* A name as the peer writes it: label#uuid; id NoObj is a text holding no
\* uuid. uuid_regex.search(p_name) finds the uuid wherever it stands.
Names == [label : Labels, id : 0..MaxObjs]

\* A DCC node name is the long path of labels from the root; None is <<>>.
None == <<>>

\* The texts old_nodes_names_dict holds as values: a DCC node name (as
\* add_objects stores it) or a label#uuid text (as set_mesh stores it).
NodeText(h) == [text |-> "node", path |-> h, name |-> [label |-> "a", id |-> NoObj]]

PNameText(n) == [text |-> "p_name", path |-> None, name |-> n]

NoOut ==
  [cmd |-> "none", names |-> <<>>, nodes |-> <<>>, ops |-> <<>>,
   old |-> [label |-> "a", id |-> NoObj], obj |-> NoObj, new |-> NoObj,
   par |-> NoObj, kids |-> {}, evicted |-> {}, same |-> FALSE, raised |-> FALSE]

EmptyScene ==
  [made |-> 0, live |-> {}, label |-> [o \in Objs |-> "a"],
   parent |-> [o \in Objs |-> NoObj], isRef |-> [o \in Objs |-> FALSE]]

NoCall == [fn |-> "none"]

\* A scene without any promethean_reference attribute.
NoAssets == [tagged |-> <<>>, log |-> <<>>]

\* The module has just been imported in a scene that works in centimetres:
\* units_multiplier was set by the call on the last line of the block.
DefaultUnits == [host |-> 1, units_multiplier |-> 1, pending |-> FALSE, used |-> <<>>]

\* No handler has been called on its own.
InitNoCalls ==
  /\ call = NoCall
  /\ assets = NoAssets
  /\ units = DefaultUnits

\* The servers are modelled over a scene that is left alone.
InitNoScene ==
  /\ scene = EmptyScene
  /\ old_nodes_names_dict = {}
  /\ ncmds = 0
  /\ cmdOut = NoOut
  /\ InitNoCalls

\* ------------------------------------------------------------------ peers
Listening == portOwner = "self"

\* Connection ids are labels: peers take them in increasing order.
PeerConnect(c) ==
  /\ Listening
  /\ cstate[c] = "idle"
  /\ \A d \in Conns : d < c => cstate[d] # "idle"
  /\ cstate' = [cstate EXCEPT ![c] = "pending"]
  /\ UNCHANGED <<wire, avail, sent, nsent, peerClosed, portOwner>>

\* Bytes sent before the server has accepted the connection wait in the same
\* buffer as bytes sent after it, so a send is modelled once accepted.
PeerSend(c, m) ==
  /\ cstate[c] = "accepted"
  /\ ~peerClosed[c]
  /\ nsent < MaxSends
  /\ wire' = [wire EXCEPT ![c] = @ \o m]
  /\ sent' = [sent EXCEPT ![c] = @ \o m]
  /\ nsent' = nsent + 1
  /\ UNCHANGED <<cstate, avail, peerClosed, portOwner>>

PeerClose(c) ==
  /\ cstate[c] = "accepted"
  /\ ~peerClosed[c]
  /\ peerClosed' = [peerClosed EXCEPT ![c] = TRUE]
  /\ UNCHANGED <<cstate, wire, avail, sent, nsent, portOwner>>

Peer(menu) ==
  \E c \in Conns :
    \/ PeerConnect(c)
    \/ \E m \in menu : PeerSend(c, m)

\* ----------------------------------------------------------- host main thread
\* The external-drop callback runs promethean_maya.drop_asset on the main
\* thread; drop_asset is wrapped by one_undo_chunk.
drop_begin ==
  /\ mainPc = "idle"
  /\ mainPc' = "drop"
  /\ undoDepth' = undoDepth + 1
  /\ UNCHANGED <<snap_active, netVars, histVars, tVars, qVars, sVars>>

drop_end ==
  /\ mainPc = "drop"
  /\ mainPc' = "idle"
  /\ undoDepth' = undoDepth - 1
  /\ UNCHANGED <<snap_active, netVars, histVars, tVars, qVars, sVars>>

Drop == drop_begin \/ drop_end

\* ------------------------------------------------ one entry of the call log
Outcome(r) ==
  IF r.raised THEN "raised" ELSE IF r.msg # PyNone THEN "reply" ELSE "silent"

Entry(c, line, pos, r, last, to) ==
  [conn |-> c, line |-> line, pos |-> pos, result |-> Outcome(r),
   last |-> last, up |-> ~peerClosed[c], to |-> to]

\* ------------------------------------------------------------ threaded server
\* close_server up to the assignment of enable_command_stack.
close_server_close ==
  /\ server_socket' = "None"
  /\ sockOpen' = IF server_socket = "socket" THEN FALSE ELSE sockOpen
  /\ portOwner' = IF server_socket = "socket" /\ sockOpen THEN "none" ELSE portOwner
  /\ enable_command_stack' = FALSE

\* send_vacate_socket_command: reaches whoever listens on the port. Another
\* process that owns the port may or may not give it up.
send_vacate_socket_command ==
  portOwner' \in IF portOwner = "other" THEN {"other", "none"} ELSE {portOwner}

\* A start that would spawn two worker threads.
SpawnTwoWorkers(wp) ==
  [w \in Workers |-> IF w <= 2 /\ wp[w] = "off" THEN "sleep0" ELSE wp[w]]

\* threading.Thread(target=execute_command_stack).start()
SpawnWorker(wp) ==
  IF \E w \in Workers : wp[w] = "off"
  THEN LET w == CHOOSE x \in Workers :
                  wp[x] = "off" /\ \A y \in Workers : wp[y] = "off" => x <= y
       IN  [wp EXCEPT ![w] = "sleep0"]
  ELSE wp

start_server_close ==
  /\ mainPc = "start"
  /\ close_server_close
  /\ mainPc' = "start_vacate"
  /\ UNCHANGED <<cstate, wire, avail, sent, nsent, peerClosed, undoDepth, snap_active,
                 histVars, command_stack, acceptPc, rpc, wpc, witem, qVars, sVars>>

start_server_vacate ==
  /\ mainPc = "start_vacate"
  /\ send_vacate_socket_command
  /\ startLog' = Append(startLog, "vacate")
  /\ mainPc' = "start_sleep"
  /\ UNCHANGED <<cstate, wire, avail, sent, nsent, peerClosed, undoDepth, snap_active,
                 log, appended, tVars, qVars, sVars>>

start_server_sleep ==
  /\ mainPc = "start_sleep"
  /\ startLog' = Append(startLog, "sleep")
  /\ enable_command_stack' = TRUE
  /\ mainPc' = "start_bind"
  /\ UNCHANGED <<netVars, undoDepth, snap_active, log, appended, server_socket, command_stack,
                 sockOpen, acceptPc, rpc, wpc, witem, qVars, sVars>>

\* socket(), bind, listen and the two Thread(...).start() calls. bind raises
\* when the port is taken; start_server then ends with the exception. The
\* accept loop of an earlier start that has not ended yet is still inside
\* accept() on the socket that was closed: acceptPc is then "accept2".
start_server_bind ==
  /\ mainPc = "start_bind"
  /\ server_socket' = "socket"
  /\ startLog' = Append(startLog, "bind")
  /\ mainPc' = "idle"
  /\ IF portOwner = "none"
     THEN /\ sockOpen' = TRUE
          /\ portOwner' = "self"
          /\ acceptPc' = IF acceptPc \in {"accept", "accept2"} THEN "accept2" ELSE "accept"
          /\ wpc' = SpawnWorker(wpc)
     ELSE UNCHANGED <<sockOpen, portOwner, acceptPc, wpc>>
  /\ UNCHANGED <<cstate, wire, avail, sent, nsent, peerClosed, undoDepth, snap_active, log,
                 appended, enable_command_stack, command_stack, rpc,
                 witem, qVars, sVars>>

start_server ==
  \/ start_server_close
  \/ start_server_vacate
  \/ start_server_sleep
  \/ start_server_bind

\* server_thread: the accept loop.
server_thread_accept(c) ==
  /\ acceptPc \in {"accept", "accept2"}
  /\ sockOpen
  /\ cstate[c] = "pending"
  /\ IF enable_command_stack
     THEN /\ cstate' = [cstate EXCEPT ![c] = "accepted"]
          /\ rpc' = [rpc EXCEPT ![c] = "recv"]
     ELSE /\ cstate' = [cstate EXCEPT ![c] = "dropped"]
          /\ UNCHANGED rpc
  /\ acceptPc' = IF server_socket = "None" THEN "exited" ELSE acceptPc
  /\ UNCHANGED <<wire, avail, sent, nsent, peerClosed, portOwner, hostVars,
                 histVars, server_socket, enable_command_stack, command_stack,
                 sockOpen, wpc, witem, qVars, sVars>>

\* The accept() of an earlier start's loop fails on its closed socket after
\* a later start has assigned the new socket: except: server_socket = None.
server_thread_late_error ==
  /\ acceptPc = "accept2"
  /\ server_socket' = "None"
  /\ acceptPc' = "accept"
  /\ UNCHANGED <<netVars, hostVars, histVars, enable_command_stack,
                 command_stack, sockOpen, rpc, wpc, witem, qVars, sVars>>

\* accept() on the closed socket fails (or is woken by the vacate connection
\* and finds server_socket unset): the loop ends.
server_thread_exit ==
  /\ acceptPc = "accept"
  /\ ~sockOpen
  /\ server_socket' = "None"
  /\ acceptPc' = "exited"
  /\ UNCHANGED <<netVars, hostVars, histVars, enable_command_stack,
                 command_stack, sockOpen, rpc, wpc, witem, qVars, sVars>>

\* connection_thread, one pass of its loop: data = connection_.recv(131072)
\* returns some prefix k of the bytes under way, then the chunk is compared
\* with the control message.
\* The chunk is the control message: close_server(), whose last statement
\* (send_vacate_socket_command) is a step of its own.
connection_thread_vacate(c) ==
  /\ rpc[c] = "recv"
  /\ cstate[c] = "accepted"
  /\ \E k \in 1..Len(wire[c]) :
       /\ SubSeq(wire[c], 1, k) = vacate_socket_command
       /\ wire' = [wire EXCEPT ![c] = SubSeq(wire[c], k + 1, Len(wire[c]))]
  /\ IF ignore_vacate_socket
     THEN UNCHANGED <<rpc, server_socket, sockOpen, portOwner, enable_command_stack>>
     ELSE /\ close_server_close
          /\ rpc' = [rpc EXCEPT ![c] = "vacating"]
  /\ UNCHANGED <<cstate, avail, sent, nsent, peerClosed, hostVars, histVars,
                 command_stack, acceptPc, wpc, witem, qVars, sVars>>

connection_thread_vacate_sent(c) ==
  /\ rpc[c] = "vacating"
  /\ send_vacate_socket_command
  /\ rpc' = [rpc EXCEPT ![c] = "recv"]
  /\ UNCHANGED <<cstate, wire, avail, sent, nsent, peerClosed, hostVars,
                 histVars, server_socket, enable_command_stack, command_stack,
                 sockOpen, acceptPc, wpc, witem, qVars, sVars>>

\* Any other chunk: command_stack.append((data, connection_))
connection_thread_append(c) ==
  /\ rpc[c] = "recv"
  /\ cstate[c] = "accepted"
  /\ \E k \in 1..Len(wire[c]) :
       LET data == SubSeq(wire[c], 1, k)
           item == [data |-> data, conn |-> c, pos |-> StreamPos(c)]
       IN  /\ data # vacate_socket_command
           /\ wire' = [wire EXCEPT ![c] = SubSeq(wire[c], k + 1, Len(wire[c]))]
           /\ command_stack' = Append(command_stack, item)
           /\ appended' = Append(appended, item)
  /\ UNCHANGED <<cstate, avail, sent, nsent, peerClosed, portOwner, hostVars,
                 startLog, log, server_socket, enable_command_stack, sockOpen,
                 acceptPc, rpc, wpc, witem, qVars, sVars>>

\* recv returns b'' at end of stream: break
connection_thread_eof(c) ==
  /\ rpc[c] = "recv"
  /\ cstate[c] = "accepted"
  /\ wire[c] = <<>>
  /\ peerClosed[c]
  /\ rpc' = [rpc EXCEPT ![c] = "done"]
  /\ UNCHANGED <<netVars, hostVars, histVars, server_socket,
                 enable_command_stack, command_stack, sockOpen, acceptPc,
                 wpc, witem, qVars, sVars>>

\* recv on a socket the worker has closed raises; "except: pass" swallows the
\* error and the loop calls recv again ("erred": back at recv after an error).
connection_thread_error(c) ==
  /\ rpc[c] \in {"recv", "erred"}
  /\ cstate[c] = "closed"
  /\ rpc' = [rpc EXCEPT ![c] = "erred"]
  /\ UNCHANGED <<netVars, hostVars, histVars, server_socket,
                 enable_command_stack, command_stack, sockOpen, acceptPc,
                 wpc, witem, qVars, sVars>>

connection_thread(c) ==
  \/ connection_thread_vacate(c)
  \/ connection_thread_vacate_sent(c)
  \/ connection_thread_append(c)
  \/ connection_thread_eof(c)
  \/ connection_thread_error(c)

\* execute_command_stack: one worker thread.
\* A worker that would take the newest item, command_stack.pop().
PopLast(stack) == Len(stack)

\* data, connection = command_stack.pop(0)
PopIndex(stack) == 1

Remove(stack, i) == SubSeq(stack, 1, i - 1) \o SubSeq(stack, i + 1, Len(stack))

worker_wake(w) ==
  /\ wpc[w] = "sleep0"
  /\ wpc' = [wpc EXCEPT ![w] = "loop"]
  /\ UNCHANGED <<netVars, hostVars, histVars, server_socket,
                 enable_command_stack, command_stack, sockOpen, acceptPc, rpc,
                 witem, qVars, sVars>>

worker_exit(w) ==
  /\ wpc[w] = "loop"
  /\ ~enable_command_stack
  /\ wpc' = [wpc EXCEPT ![w] = "exited"]
  /\ UNCHANGED <<netVars, hostVars, histVars, server_socket,
                 enable_command_stack, command_stack, sockOpen, acceptPc, rpc,
                 witem, qVars, sVars>>

worker_idle(w) ==
  /\ wpc[w] = "loop"
  /\ enable_command_stack
  /\ command_stack = <<>>
  /\ UNCHANGED vars

\* data, connection = command_stack.pop(0); with Undo(): __enter__ opens a
\* chunk.
worker_pop(w) ==
  /\ wpc[w] = "loop"
  /\ enable_command_stack
  /\ command_stack # <<>>
  /\ LET i == PopIndex(command_stack)
     IN  /\ witem' = [witem EXCEPT ![w] = command_stack[i]]
         /\ command_stack' = Remove(command_stack, i)
  /\ undoDepth' = undoDepth + 1
  /\ wpc' = [wpc EXCEPT ![w] = "inUndo"]
  /\ UNCHANGED <<netVars, mainPc, snap_active, histVars, server_socket,
                 enable_command_stack, sockOpen, acceptPc, rpc, qVars, sVars>>

\* promethean_maya.command_switch(connection, str(data.decode())), then
\* Undo.__exit__, the except clause and connection.close(). The value
\* command_switch returns is not used.
worker_call(w) ==
  /\ wpc[w] = "inUndo"
  /\ \E fate \in Fates :
       LET it == witem[w]
           r == command_switch(<<it.conn, it.data>>, fate)
       IN  /\ undoDepth' = undoDepth + r.leak - 1
           /\ snap_active' = (snap_active # r.toggle)
           /\ log' = Append(log, Entry(it.conn, it.data, it.pos, r, TRUE, NoConn))
           /\ cstate' = [cstate EXCEPT ![it.conn] = "closed"]
  /\ witem' = [witem EXCEPT ![w] = NoItem]
  /\ wpc' = [wpc EXCEPT ![w] = "loop"]
  /\ UNCHANGED <<wire, avail, sent, nsent, peerClosed, portOwner, mainPc,
                 startLog, appended, server_socket, enable_command_stack,
                 command_stack, sockOpen, acceptPc, rpc, qVars, sVars>>

execute_command_stack(w) ==
  \/ worker_wake(w)
  \/ worker_exit(w)
  \/ worker_idle(w)
  \/ worker_pop(w)
  \/ worker_call(w)

PeerT ==
  /\ Peer(MenuT) \/ \E c \in Conns : PeerClose(c)
  /\ UNCHANGED <<hostVars, histVars, tVars, qVars, sVars>>

InitT == InitShared /\ mainPc = "start" /\ InitNoScene

NextT ==
  \/ start_server
  \/ \E c \in Conns : server_thread_accept(c)
  \/ server_thread_exit
  \/ \E c \in Conns : connection_thread(c)
  \/ \E w \in Workers : execute_command_stack(w)
  \/ Drop
  \/ PeerT

SpecT == InitT /\ [][NextT]_vars

\* ------------------------------------------------------------------ Qt server
\* MayaServer.__init__ -> connect(): listen; on failure disconnect() and one
\* more connect(try_disconnect=False).
MayaServer_connect ==
  /\ q_server = "none"
  /\ mainPc = "idle"
  /\ IF portOwner = "none"
     THEN /\ q_server' = "listening"
          /\ portOwner' = "self"
          /\ startLog' = Append(startLog, "bind")
     ELSE /\ q_server' = "failed"
          /\ UNCHANGED portOwner
          /\ startLog' = startLog \o <<"bind", "bind">>
  /\ UNCHANGED <<cstate, wire, avail, sent, nsent, peerClosed, hostVars, sVars, log,
                 appended, tVars, sVars, q_socket, q_slots>>

\* _on_established_connection: self._socket = nextPendingConnection()
on_established_connection(c) ==
  /\ q_server = "listening"
  /\ mainPc = "idle"
  /\ cstate[c] = "pending"
  /\ cstate' = [cstate EXCEPT ![c] = "accepted"]
  /\ q_socket' = c
  /\ q_slots' = IF peerClosed[c] THEN q_slots ELSE q_slots \cup {c}
  /\ UNCHANGED <<wire, avail, sent, nsent, peerClosed, portOwner, hostVars, sVars,
                 histVars, sVars, tVars, sVars, q_server>>

\* A _read that would read the socket whose readyRead fired.
ReadSourceSender(sender) == sender

\* self._socket.read(131072): whatever socket raised readyRead, _read reads
\* the one _on_established_connection stored last.
ReadSource(sender) == q_socket

\* A _process_data that would keep the last result that is not None.
NextResKeep(res, out) == IF out = PyNone THEN res ELSE out

\* res = promethean_maya.command_switch(data), or 'None' in the except clause:
\* each line overwrites res.
NextRes(res, out) == out

\* The loop of _process_data over data_str.split('\n'). st carries the log
\* entries made so far, res, the entry res comes from, the undo chunks left
\* open, _snap_active and the stream position of the next line.
RECURSIVE ProcessLines(_, _, _, _, _)
ProcessLines(lines, i, fates, c, st) ==
  IF i > Len(lines)
  THEN st
  ELSE
    LET data == lines[i] IN
    IF data = <<>>
    THEN ProcessLines(lines, i + 1, fates, c, [st EXCEPT !.pos = @ + 1])
    ELSE
      LET r == command_switch(<<data>>, fates[i])
          out == IF r.raised THEN NoneReply ELSE r.msg
          res == NextRes(st.res, out)
          last == \A j \in (i + 1)..Len(lines) : lines[j] = <<>>
          e == Entry(c, data, st.pos, r, last, NoConn)
          n == Len(st.entries) + 1
      IN  ProcessLines(lines, i + 1, fates, c,
            [entries |-> Append(st.entries, e),
             res |-> res,
             from |-> IF res = out THEN (IF out = PyNone THEN 0 ELSE n)
                      ELSE st.from,
             leak |-> st.leak + r.leak,
             snap |-> (st.snap # r.toggle),
             pos |-> st.pos + Len(data) + 1])

process_data(chunk, fates, c, pos) ==
  ProcessLines(SplitNL(chunk), 1, fates, c,
               [entries |-> <<>>, res |-> PyNone, from |-> 0, leak |-> 0,
                snap |-> snap_active, pos |-> pos])

\* _write: only while the socket is connected.
CanWrite == q_socket # NoConn /\ cstate[q_socket] = "accepted" /\ ~peerClosed[q_socket]

\* k more bytes arrive on connection s; its readyRead runs _read, which reads
\* all that is buffered (at most 131072 bytes) and hands it to _process_data,
\* which writes the last result.
read(s) ==
  /\ mainPc = "idle"
  /\ s \in q_slots
  /\ cstate[s] = "accepted"
  /\ wire[s] # <<>>
  /\ \E k \in 1..Len(wire[s]) :
       LET got == [avail EXCEPT ![s] = @ \o SubSeq(wire[s], 1, k)]
           src == ReadSource(s)
           chunk == got[src]
           pos == StreamPos(src)
       IN  /\ wire' = [wire EXCEPT ![s] = SubSeq(wire[s], k + 1, Len(wire[s]))]
           /\ IF chunk = <<>>
              THEN /\ avail' = got
                   /\ UNCHANGED <<log, undoDepth, snap_active>>
              ELSE \E fates \in [1..Len(SplitNL(chunk)) -> Fates] :
                     LET st == process_data(chunk, fates, src, pos)
                         wr == st.res # PyNone /\ st.from # 0 /\ CanWrite
                     IN  /\ avail' = [got EXCEPT ![src] = <<>>]
                         /\ undoDepth' = undoDepth + st.leak
                         /\ snap_active' = st.snap
                         /\ log' = log \o
                              [j \in 1..Len(st.entries) |->
                                 IF wr /\ j = st.from
                                 THEN [st.entries[j] EXCEPT !.to = q_socket]
                                 ELSE st.entries[j]]
  /\ UNCHANGED <<cstate, sent, nsent, peerClosed, portOwner, mainPc, startLog,
                 appended, tVars, qVars, sVars>>

\* snap_to_cursor, run by _snap_timer on the main thread: returns at once
\* unless _snap_active; otherwise it moves the selection, which is no part of
\* the state kept here.
snap_to_cursor ==
  /\ mainPc = "idle"
  /\ snap_active
  /\ UNCHANGED vars

\* Peers of the Qt server stay connected.
PeerQ == Peer(Menu) /\ UNCHANGED <<hostVars, histVars, tVars, qVars, sVars>>

InitQt == InitShared /\ mainPc = "idle" /\ InitNoScene

NextQt ==
  \/ MayaServer_connect
  \/ \E c \in Conns : on_established_connection(c)
  \/ \E c \in Conns : read(c)
  \/ snap_to_cursor
  \/ PeerQ

SpecQt == InitQt /\ [][NextQt]_vars

\* The Qt event loop delivers every readyRead signal: a _read that stays
\* possible is run.
SpecQtLive == SpecQt /\ \A c \in Conns : WF_vars(read(c))

\* ----------------------------------------------------------- scene dispatch
\* One action is one command line run by command_switch on the main thread
\* (the Qt server runs a whole slot without interruption). sc is a scene
\* record, tbl a value of old_nodes_names_dict: a set of key/value entries
\* with at most one entry per key.

\* The long name of a live transform: the labels from the root down to it.
RECURSIVE Path(_, _)
Path(sc, o) ==
  IF sc.parent[o] = NoObj
  THEN <<sc.label[o]>>
  ELSE Append(Path(sc, sc.parent[o]), sc.label[o])

\* The live transform a DCC node name denotes (cmds.objExists, cmds.ls of a
\* long name); siblings never share a label, so there is at most one.
ObjOf(sc, h) ==
  IF \E o \in sc.live : Path(sc, o) = h
  THEN CHOOSE o \in sc.live : Path(sc, o) = h
  ELSE NoObj

\* cmds.ls(text) for a stored value: a label#uuid text is no node name.
cmds_ls(sc, v) ==
  IF v.text = "node" THEN {o \in sc.live : Path(sc, o) = v.path} ELSE {}

\* cmds.ls(label, long=True): every live transform with that short name.
cmds_ls_label(sc, l) == {o \in sc.live : sc.label[o] = l}

\* '%s#%s' % (name, uuid) of a node name; the text has no uuid when the node
\* does not exist.
node_to_promethean_name(sc, h) ==
  IF h = None THEN [label |-> "a", id |-> NoObj]
  ELSE [label |-> h[Len(h)], id |-> ObjOf(sc, h)]

HasKey(tbl, k) == \E e \in tbl : e.key = k

Get(tbl, k) == (CHOOSE e \in tbl : e.key = k).val

\* old_nodes_names_dict[k] = v
SetItem(tbl, k, v) == {e \in tbl : e.key # k} \cup {[key |-> k, val |-> v]}

\* old_nodes_names_dict.pop(k)
PopEvictAll(tbl, k) == {}

PopItem(tbl, k) == {e \in tbl : e.key # k}

\* Resolution by label when no uuid is in the text: any match is taken.
LabelMatchAny(sc, l) ==
  IF cmds_ls_label(sc, l) # {}
  THEN Path(sc, CHOOSE o \in cmds_ls_label(sc, l) : TRUE)
  ELSE None

\* node_names = cmds.ls(p_name, long=True); taken if len(node_names) == 1
LabelMatch(sc, l) ==
  IF Cardinality(cmds_ls_label(sc, l)) = 1
  THEN Path(sc, CHOOSE o \in cmds_ls_label(sc, l) : TRUE)
  ELSE None

\* get_node_from_promethean_name: the node name returned (or None) and the
\* table as the call leaves it.
get_node_from_promethean_name(sc, tbl, p_name) ==
  LET hit == HasKey(tbl, p_name)
      found == hit /\ cmds_ls(sc, Get(tbl, p_name)) # {}
      tbl2 == IF hit /\ ~found THEN PopItem(tbl, p_name) ELSE tbl
  IN  IF found
      THEN [node |-> Get(tbl, p_name).path, table |-> tbl]
      ELSE IF p_name.id # NoObj
      THEN [node |-> IF p_name.id \in sc.live THEN Path(sc, p_name.id) ELSE None,
            table |-> tbl2]
      ELSE [node |-> LabelMatch(sc, p_name.label), table |-> tbl2]

\* get_nodes_from_promethean_names: the names are resolved in order, each
\* call seeing the table the previous one left.
RECURSIVE get_nodes_from_promethean_names(_, _, _)
get_nodes_from_promethean_names(sc, tbl, names) ==
  IF names = <<>>
  THEN [nodes |-> <<>>, table |-> tbl]
  ELSE LET r == get_node_from_promethean_name(sc, tbl, Head(names))
           rest == get_nodes_from_promethean_names(sc, r.table, Tail(names))
       IN  [nodes |-> <<r.node>> \o rest.nodes, table |-> rest.table]

\* A new transform under the root would share its label with a sibling; the
\* host then picks another label, which is not modelled: such inputs are
\* left out.
Clash(sc, par, l, self) ==
  \E o \in sc.live \ {self} : sc.parent[o] = par /\ sc.label[o] = l

\* 'get_transform_data <name>': resolve, reply with the node's data. The
\* record keeps the keys the resolution dropped from the table.
cmd_get_transform_data(p_name) ==
  LET r == get_node_from_promethean_name(scene, old_nodes_names_dict, p_name)
  IN  /\ old_nodes_names_dict' = r.table
      /\ cmdOut' = [NoOut EXCEPT !.cmd = "get_transform_data",
                                 !.names = <<p_name>>, !.nodes = <<r.node>>,
                                 !.evicted = {e.key : e \in old_nodes_names_dict \ r.table}]
      /\ UNCHANGED scene

\* 'rename <name> <label>': cmds.rename(source_node, target_name) when the
\* name resolves. The record keeps the name the node had before the rename.
cmd_rename(p_name, target) ==
  LET r == get_node_from_promethean_name(scene, old_nodes_names_dict, p_name)
      o == ObjOf(scene, r.node)
  IN  /\ old_nodes_names_dict' = r.table
      /\ IF r.node # None
         THEN /\ ~Clash(scene, scene.parent[o], target, o)
              /\ scene' = [scene EXCEPT !.label[o] = target]
         ELSE UNCHANGED scene
      /\ cmdOut' = [NoOut EXCEPT !.cmd = "rename", !.names = <<p_name>>,
                                 !.nodes = <<r.node>>,
                                 !.old = node_to_promethean_name(scene, r.node),
                                 !.obj = o]

\* 'add_objects {key: {...}}' with one item that names no parent and no asset:
\* add_object creates a transform under the root and its node name is stored
\* under the caller's key. Node names are long paths throughout; the shorter
\* form in which the host may hand back a new node's name is not told apart.
cmd_add_objects(key, l) ==
  LET n == scene.made + 1
  IN  /\ scene.made < MaxObjs
      /\ ~Clash(scene, NoObj, l, NoObj)
      /\ scene' = [scene EXCEPT !.made = n, !.live = @ \cup {n},
                                !.label[n] = l, !.parent[n] = NoObj,
                                !.isRef[n] = FALSE]
      /\ old_nodes_names_dict' = SetItem(old_nodes_names_dict, key, NodeText(<<l>>))
      /\ cmdOut' = [NoOut EXCEPT !.cmd = "add_objects", !.names = <<key>>,
                                 !.new = n]

\* cmds.listRelatives(node, children=True, type='transform')
ChildrenOf(sc, o) == {c \in sc.live : sc.parent[c] = o}

\* cmds.listRelatives(node, allDescendents=True, type='transform')
RECURSIVE IsBelow(_, _, _)
IsBelow(sc, c, o) ==
  /\ sc.parent[c] # NoObj
  /\ \/ sc.parent[c] = o
     \/ IsBelow(sc, sc.parent[c], o)

Descendants(sc, o) == {c \in sc.live : IsBelow(sc, c, o)}

\* cmds.delete(node): the node goes, and with it whatever is still below it.
HostDelete(sc, o) == [sc EXCEPT !.live = @ \ ({o} \cup Descendants(sc, o))]

\* cmds.file(referenceNode=ref_node, removeReference=True)
HostRemoveReference(sc, o) == [sc EXCEPT !.live = @ \ ({o} \cup Descendants(sc, o))]

\* A host call as the record of a command keeps it: the node name, the
\* transforms still below the node when it was removed, and whether it was
\* reference-backed.
RemoveOp(sc, op, o) ==
  [op |-> op, obj |-> o, path |-> Path(sc, o), below |-> Descendants(sc, o),
   isRef |-> sc.isRef[o], par |-> NoObj, already |-> {}]

\* The end of _remove: is_reference(dcc_name) picks removeReference or
\* cmds.delete.
RemoveSelf(st, o) ==
  IF st.sc.isRef[o]
  THEN [sc |-> HostRemoveReference(st.sc, o),
        ops |-> Append(st.ops, RemoveOp(st.sc, "removeReference", o))]
  ELSE [sc |-> HostDelete(st.sc, o),
        ops |-> Append(st.ops, RemoveOp(st.sc, "delete", o))]

\* A removal that would not visit the descendants first.
NoChildrenFirst(sc, o) == {}

\* The children list _remove walks before it removes the node itself.
ChildrenFirst(sc, o) == Descendants(sc, o)

\* remove._remove on a node, and its loop over the children list (taken in
\* ascending uuid order). st is the scene and the host calls made so far.
RECURSIVE remove_one(_, _), remove_each(_, _)
remove_one(st, o) ==
  IF o = NoObj \/ o \notin st.sc.live
  THEN st
  ELSE RemoveSelf(remove_each(st, ChildrenFirst(st.sc, o)), o)

remove_each(st, todo) ==
  IF todo = {}
  THEN st
  ELSE LET c == CHOOSE x \in todo : \A y \in todo : x <= y
       IN  remove_each(remove_one(st, c), todo \ {c})

\* remove(dcc_names): for dcc_name in dcc_names: _remove(dcc_name)
RECURSIVE remove(_, _, _)
remove(sc, ops, nodes) ==
  IF nodes = <<>>
  THEN [sc |-> sc, ops |-> ops]
  ELSE LET st == remove_one([sc |-> sc, ops |-> ops], ObjOf(sc, Head(nodes)))
       IN  remove(st.sc, st.ops, Tail(nodes))

\* 'remove <names>': entries whose value is one of the resolved node names
\* are dropped from old_nodes_names_dict, then remove(nodes).
cmd_remove(names) ==
  LET r == get_nodes_from_promethean_names(scene, old_nodes_names_dict, names)
      st == remove(scene, <<>>, r.nodes)
  IN  /\ old_nodes_names_dict' =
           {e \in r.table :
              ~(e.val.text = "node"
                /\ \E i \in DOMAIN r.nodes : r.nodes[i] = e.val.path)}
      /\ scene' = st.sc
      /\ cmdOut' = [NoOut EXCEPT !.cmd = "remove", !.names = names,
                                 !.nodes = r.nodes, !.ops = st.ops]

\* cmds.ls(child_parent, uuid=True)[0]: a uuid text.
UuidText(o) == [text |-> "uuid", path |-> None, name |-> [label |-> "a", id |-> o]]

\* 'parent <parent>,<child>': _get_valid_children keeps a child unless the
\* uuid text of its current parent equals `parent`, which is a node name;
\* cmds.parent(valid_children, parent) is called when any child is kept.
\* Inputs that would make the host refuse the call (a child that is the
\* target or above it) or relabel the child are left out.
cmd_parent(names) ==
  LET r == get_nodes_from_promethean_names(scene, old_nodes_names_dict, names)
      parent == Head(r.nodes)
      children == Tail(r.nodes)
      target == ObjOf(scene, parent)
      exists == {ObjOf(scene, children[i]) : i \in DOMAIN children} \ {NoObj}
      valid == {c \in exists :
                  ~(scene.parent[c] # NoObj
                    /\ UuidText(scene.parent[c]) = NodeText(parent))}
      moved == {c \in valid : scene.parent[c] # target}
      called == parent # None /\ target # NoObj /\ valid # {}
  IN  /\ old_nodes_names_dict' = r.table
      /\ IF called
         THEN /\ \A c \in moved :
                   /\ c # target
                   /\ ~IsBelow(scene, target, c)
                   /\ ~Clash(scene, target, scene.label[c], c)
              /\ scene' = [scene EXCEPT
                   !.parent = [o \in Objs |-> IF o \in moved THEN target ELSE @[o]]]
              /\ cmdOut' = [NoOut EXCEPT !.cmd = "parent", !.names = names,
                   !.nodes = r.nodes,
                   !.ops = <<[op |-> "parent", obj |-> NoObj, path |-> None, below |-> valid,
                              isRef |-> FALSE, par |-> target,
                              already |-> valid \ moved]>>]
         ELSE /\ UNCHANGED scene
              /\ cmdOut' = [NoOut EXCEPT !.cmd = "parent", !.names = names,
                                         !.nodes = r.nodes]

\* What reference_asset can hand back to set_mesh: a list with the new
\* transform, an empty list (empty asset path), or an exception of the host.
AssetOutcomes == {"new", "empty", "raise"}

\* 'set_mesh <mesh_path> <name>' on one target. same: the target's reference
\* path already equals mesh_path (the loop continues without a change). A
\* name without a node has the reference path '' and is not skipped: once
\* reference_asset has handed back a transform, node_to_promethean_name(None)
\* raises on None.rpartition; so does reference_asset when the host does.
cmd_set_mesh(p_name, same, outcome) ==
  LET r == get_node_from_promethean_name(scene, old_nodes_names_dict, p_name)
      o == ObjOf(scene, r.node)
      p == scene.parent[o]
      kids == ChildrenOf(scene, o)
      n == scene.made + 1
      made == [scene EXCEPT !.made = n, !.live = @ \cup {n}, !.label[n] = "m",
                            !.parent = [x \in Objs |->
                                          IF x = n THEN p
                                          ELSE IF x \in kids THEN n
                                          ELSE @[x]],
                            !.isRef[n] = FALSE]
      old_p_name == node_to_promethean_name(scene, r.node)
      rec == [NoOut EXCEPT !.cmd = "set_mesh", !.names = <<p_name>>,
                           !.nodes = <<r.node>>,
                           !.same = r.node # None /\ same,
                           !.raised = IF r.node = None THEN outcome # "empty"
                                      ELSE ~same /\ outcome = "raise"]
  IN  IF r.node = None \/ same \/ outcome = "raise"
      THEN /\ old_nodes_names_dict' = r.table
           /\ UNCHANGED scene
           /\ cmdOut' = rec
      ELSE IF outcome = "new"
      THEN LET st == remove(made, <<>>, <<r.node>>)
           IN  /\ scene.made < MaxObjs
               /\ ~Clash(scene, NoObj, "m", NoObj)
               /\ ~Clash(scene, p, "m", NoObj)
               /\ old_nodes_names_dict' =
                    SetItem(r.table, old_p_name,
                            PNameText(node_to_promethean_name(made, Path(made, n))))
               /\ scene' = st.sc
               /\ cmdOut' = [rec EXCEPT !.old = old_p_name, !.obj = o, !.new = n,
                                        !.par = p, !.kids = kids, !.ops = st.ops]
      ELSE LET st == remove(scene, <<>>, <<r.node>>)
           IN  /\ old_nodes_names_dict' = r.table
               /\ scene' = st.sc
               /\ cmdOut' = [rec EXCEPT !.old = old_p_name, !.obj = o,
                                        !.par = p, !.kids = kids, !.ops = st.ops]

\* Scenes a session can start from: a root transform "a", a transform "b"
\* at the root or below it, and a transform "a" below "b" that may be
\* reference-backed.
InitScenes ==
  {sc \in [made : {3}, live : {{1, 2, 3}},
           label : [Objs -> {"a", "b"}],
           parent : [Objs -> 0..2],
           isRef : [Objs -> BOOLEAN]] :
     /\ sc.label[1] = "a" /\ sc.label[2] = "b" /\ sc.label[3] = "a"
     /\ sc.parent[1] = NoObj
     /\ sc.parent[2] \in {NoObj, 1}
     /\ sc.parent[3] = 2
     /\ \A o \in Objs \ sc.live :
          sc.label[o] = "a" /\ sc.parent[o] = NoObj /\ ~sc.isRef[o]
     /\ ~sc.isRef[1] /\ ~sc.isRef[2]}

InitScene ==
  /\ InitShared
  /\ portOwner = "none"
  /\ mainPc = "idle"
  /\ scene \in InitScenes
  /\ old_nodes_names_dict = {}
  /\ ncmds = 0
  /\ cmdOut = NoOut
  /\ InitNoCalls

\* command_switch on one command line.
Dispatch(cmd) ==
  /\ ncmds < MaxCmds
  /\ ncmds' = ncmds + 1
  /\ cmd
  /\ UNCHANGED <<netVars, hostVars, histVars, tVars, qVars, dVars>>

\* The names a peer sends: a label alone or a label with a uuid.
PeerNames == {n \in Names : n.label \in {"a", "b"}}

\* The names the commands that change the scene are tried on.
Targets == {n \in PeerNames : n.label = "a" /\ n.id # NoObj} \cup {[label |-> "b", id |-> NoObj]}

\* set_mesh inputs: whether the mesh is the one already referenced, and if
\* not, what reference_asset hands back.
MeshInputs == {<<TRUE, "new">>} \cup {<<FALSE, oc>> : oc \in AssetOutcomes}

NextScene ==
  \/ \E n \in PeerNames : Dispatch(cmd_get_transform_data(n))
  \/ \E n \in PeerNames, l \in {"a", "b"} : Dispatch(cmd_rename(n, l))
  \/ \E k \in Targets, l \in {"a", "b"} : Dispatch(cmd_add_objects(k, l))
  \/ \E n \in Targets : Dispatch(cmd_remove(<<n>>))
  \/ \E n1, n2 \in Targets : Dispatch(cmd_parent(<<n1, n2>>))
  \/ \E n \in Targets, i \in MeshInputs : Dispatch(cmd_set_mesh(n, i[1], i[2]))

SpecScene == InitScene /\ [][NextScene]_vars

\* ------------------------------------------------------------- add_objects
\* The handlers below are run on inputs of their own, one call in a
\* behaviour; what the call was given and what it did is kept in `call`. Numbers with a fraction (dot products,
\* thresholds) are on a scale of 100.

\* dict.get(key, None) of a key the item does not have.
Absent == -1000

\* The interpreters the host ships: Python 2 orders None below every number,
\* Python 3 raises TypeError when a number is compared with None.
Pythons == {2, 3}

\* `if x:` on a number or None
Truthy(x) == x # Absent /\ x # 0

\* x < y where x is a number and y a number or None
PyLess(x, y, py) ==
  IF y = Absent
  THEN IF py = 2 THEN "false" ELSE "raise"
  ELSE IF x < y THEN "true" ELSE "false"

\* x > y where x is a number and y a number or None
PyGreater(x, y, py) ==
  IF y = Absent
  THEN IF py = 2 THEN "true" ELSE "raise"
  ELSE IF x > y THEN "true" ELSE "false"

MaxBatch == 2

\* One value of obj_dict, with what raytrace would return for it: hit_dot is
\* dot([0, 1, 0], hit_normal), Absent when the ray hits nothing.
Items ==
  {it \in [location : {200}, raytrace_distance : {Absent, 400},
           hit_dot : {Absent, -50, 90}, hit_position : {30},
           raytrace_alignment : {Absent, 0, 80},
           raytrace_alignment_mask : {Absent, 0, 95}] :
     it.raytrace_distance = Absent => it.hit_dot = Absent}

Batches == UNION {[1..n -> Items] : n \in 1..MaxBatch}

\* `if raytrace_alignment or raytrace_alignment_mask`, one operand
ThresholdGiven(x) == Truthy(x)

\* add_object up to the creation of the node: None is returned before
\* anything is created ("rejected"), a comparison raises ("raised"), or the
\* node is created and cmds.xform places it.
add_object(it, m, py) ==
  LET location == it.location \div m
      hit == Truthy(it.raytrace_distance) /\ it.hit_dot # Absent
      checks == hit /\ (ThresholdGiven(it.raytrace_alignment)
                        \/ ThresholdGiven(it.raytrace_alignment_mask))
      below == PyLess(it.hit_dot, it.raytrace_alignment_mask, py)
      above == PyGreater(it.hit_dot, it.raytrace_alignment, py)
      none == [status |-> "rejected", location |-> Absent, rotation |-> "none",
               y_rotation |-> FALSE]
  IN  IF checks /\ below = "raise" THEN [none EXCEPT !.status = "raised"]
      ELSE IF checks /\ below = "true" THEN none
      ELSE IF checks /\ above = "raise" THEN [none EXCEPT !.status = "raised"]
      ELSE [status |-> "created",
            location |-> IF hit THEN it.hit_position ELSE location,
            rotation |-> IF checks /\ above = "true" THEN "normal" ELSE "input",
            y_rotation |-> checks /\ above = "true"]

\* The loop of 'add_objects' over obj_dict: an item whose add_object raises
\* ends the command, the items after it are not reached.
RECURSIVE add_objects(_, _, _, _, _)
add_objects(items, i, m, py, acc) ==
  IF i > Len(items)
  THEN acc
  ELSE LET r == IF acc.failed
                THEN [status |-> "not_reached", location |-> Absent,
                      rotation |-> "none", y_rotation |-> FALSE]
                ELSE add_object(items[i], m, py)
       IN  add_objects(items, i + 1, m, py,
             [results |-> Append(acc.results, r),
              return_dict |-> IF r.status = "created"
                              THEN acc.return_dict \cup {i} ELSE acc.return_dict,
              failed |-> acc.failed \/ r.status = "raised"])

call_add_objects(items, m, py) ==
  LET r == add_objects(items, 1, m, py,
                       [results |-> <<>>, return_dict |-> {}, failed |-> FALSE])
  IN  /\ call = NoCall
      /\ call' = [fn |-> "add_objects", items |-> items, m |-> m, py |-> py,
                  results |-> r.results, return_dict |-> r.return_dict,
                  failed |-> r.failed]
      /\ UNCHANGED <<netVars, hostVars, histVars, tVars, qVars, scene,
                     old_nodes_names_dict, ncmds, cmdOut, assets, units>>

\* ------------------------------------------------------------------ raytrace
\* Lengths are in tenths of a centimetre; the ray starts at distance 0.
MaxMeshes == 2

Meshes == 1..MaxMeshes

\* get_geometry_in_view(): the meshes inside the frustum, in the order the
\* draw traversal lists them.
Views ==
  {v \in UNION {[1..n -> Meshes] : n \in 0..MaxMeshes} :
     \A i, j \in DOMAIN v : i # j => v[i] # v[j]}

\* How far along the ray each mesh is met; Absent when the ray misses it.
Geometries == [Meshes -> {Absent, 5, 12, 15}]

NoHit == [object |-> 0, distance |-> Absent]

\* int(distance), the maxParam handed to closestIntersection
IntLimit(distance) == (distance \div 10) * 10

\* MFnMesh.closestIntersection(..., maxParam, ...)
closestIntersection(geo, mesh, maxParam) ==
  geo[mesh] # Absent /\ geo[mesh] <= maxParam

\* if hit_dst < hit_distance
Closer(hit_dst, hit_distance) == hit_dst < hit_distance

\* The scan of raytrace over its results for the closest hit.
RECURSIVE ClosestHit(_, _, _)
ClosestHit(results, i, closest_hit) ==
  IF i > Len(results)
  THEN closest_hit
  ELSE ClosestHit(results, i + 1,
         IF closest_hit = NoHit \/ Closer(results[i].distance, closest_hit.distance)
         THEN results[i] ELSE closest_hit)

\* raytrace(start_point, [0, -1, 0], distance, ignore_dcc_names) with the
\* distance already in centimetres. modelPanel: the panel under the pointer
\* or with focus is a model panel.
raytrace(view, geo, ignore, modelPanel, distance) ==
  LET meshes_in_view == SelectSeq(view, LAMBDA x : x \notin ignore)
      hits == SelectSeq(meshes_in_view,
                        LAMBDA x : closestIntersection(geo, x, IntLimit(distance)))
      results == [i \in DOMAIN hits |-> [object |-> hits[i], distance |-> geo[hits[i]]]]
  IN  IF meshes_in_view = <<>> THEN NoHit
      ELSE IF ~modelPanel THEN NoHit
      ELSE ClosestHit(results, 1, NoHit)

call_raytrace(view, geo, ignore, modelPanel, distance) ==
  /\ call = NoCall
  /\ call' = [fn |-> "raytrace", view |-> view, geo |-> geo, ignore |-> ignore,
              modelPanel |-> modelPanel, distance |-> distance,
              hit |-> raytrace(view, geo, ignore, modelPanel, distance)]
  /\ UNCHANGED <<netVars, hostVars, histVars, tVars, qVars, scene,
                 old_nodes_names_dict, ncmds, cmdOut, assets, units>>

\* ------------------------------------------------- command_switch, one line
MaxTokens == 6

\* Branches of command_switch: the branch is taken when the line has more
\* than `guard` tokens, and its handler reads command_list up to index
\* `reads` (0 is the command name).
Vocabulary ==
  {[command |-> "report_done", guard |-> 0, reads |-> 0],
   [command |-> "get_transform_data", guard |-> 1, reads |-> 1],
   [command |-> "remove", guard |-> 1, reads |-> 1],
   [command |-> "rename", guard |-> 2, reads |-> 2],
   [command |-> "set_mesh", guard |-> 2, reads |-> 2],
   [command |-> "select", guard |-> 0, reads |-> 1],
   [command |-> "set_visible", guard |-> 0, reads |-> 1],
   [command |-> "set_hidden", guard |-> 0, reads |-> 1],
   [command |-> "focus", guard |-> 0, reads |-> 1],
   [command |-> "translate", guard |-> 1, reads |-> 2],
   [command |-> "translate_and_snap", guard |-> 4, reads |-> 5],
   [command |-> "translate_and_raytrace", guard |-> 3, reads |-> 4],
   [command |-> "raytrace", guard |-> 0, reads |-> 2],
   [command |-> "enable_simulation_on_objects", guard |-> 0, reads |-> 1]}

Branch(command) == CHOOSE b \in Vocabulary : b.command = command

\* The elif chain on a line of ntok tokens whose first token is in the
\* vocabulary: the branch that runs, and whether command_list[i] raises
\* IndexError in it.
route(command, ntok) ==
  LET b == Branch(command)
  IN  IF ntok > b.guard
      THEN [branch |-> "typed", raised |-> b.reads >= ntok]
      ELSE [branch |-> "passthrough", raised |-> FALSE]

call_route(command, ntok) ==
  /\ call = NoCall
  /\ call' = [fn |-> "route", command |-> command, ntok |-> ntok,
              reads |-> Branch(command).reads, out |-> route(command, ntok)]
  /\ UNCHANGED <<netVars, hostVars, histVars, tVars, qVars, scene,
                 old_nodes_names_dict, ncmds, cmdOut, assets, units>>

\* Commands that take a list of names: `filters` says whether the handler
\* drops the names that did not resolve before it calls the host, `each`
\* whether the host is called once per node or once with the list.
BatchCommands ==
  {[command |-> "get_transform_data", filters |-> TRUE, each |-> TRUE],
   [command |-> "select", filters |-> TRUE, each |-> FALSE],
   [command |-> "set_visible", filters |-> TRUE, each |-> FALSE],
   [command |-> "set_hidden", filters |-> TRUE, each |-> FALSE],
   [command |-> "translate", filters |-> TRUE, each |-> FALSE],
   [command |-> "translate_and_snap", filters |-> FALSE, each |-> TRUE],
   [command |-> "translate_and_raytrace", filters |-> FALSE, each |-> TRUE],
   [command |-> "set_mesh", filters |-> FALSE, each |-> TRUE],
   [command |-> "get_vertex_data_from_scene_objects", filters |-> FALSE, each |-> TRUE],
   [command |-> "enable_simulation_on_objects", filters |-> FALSE, each |-> FALSE]}

\* What get_nodes_from_promethean_names can hand to a handler: node names,
\* None for a name that did not resolve.
NodeLists == UNION {[1..n -> 0..2] : n \in 1..MaxBatch}

\* The host calls of a handler on the resolved nodes, in order: the handles
\* each call is given. A call that is given None raises when the host
\* refuses it (hostRaises), and then the rest of the list is not processed.
RECURSIVE run_each(_, _, _, _)
run_each(nodes, i, hostRaises, acc) ==
  IF i > Len(nodes) \/ acc.raised
  THEN acc
  ELSE run_each(nodes, i + 1, hostRaises,
         [passed |-> Append(acc.passed, nodes[i]),
          raised |-> nodes[i] = NoObj /\ hostRaises])

run_batch(b, nodes, hostRaises) ==
  LET kept == IF b.filters THEN SelectSeq(nodes, LAMBDA x : x # NoObj) ELSE nodes
  IN  IF b.each
      THEN run_each(kept, 1, hostRaises, [passed |-> <<>>, raised |-> FALSE])
      ELSE [passed |-> kept,
            raised |-> hostRaises /\ \E i \in DOMAIN kept : kept[i] = NoObj]

call_batch(b, nodes, hostRaises) ==
  /\ call = NoCall
  /\ call' = [fn |-> "batch", command |-> b.command, nodes |-> nodes,
              out |-> run_batch(b, nodes, hostRaises)]
  /\ UNCHANGED <<netVars, hostVars, histVars, tVars, qVars, scene,
                 old_nodes_names_dict, ncmds, cmdOut, assets, units>>

\* Values a handler leaves in msg. 'DefaultValue' is what msg holds when no
\* handler set it; unicode is a text type of Python 2 only. json is what
\* json.dumps makes of the value.
MsgValues ==
  {[type |-> "str", text |-> "DefaultValue", falsy |-> FALSE, json |-> "\"DefaultValue\""],
   [type |-> "str", text |-> "", falsy |-> TRUE, json |-> "\"\""],
   [type |-> "str", text |-> "None", falsy |-> FALSE, json |-> "\"None\""],
   [type |-> "str", text |-> "{\"a\": 1}", falsy |-> FALSE, json |-> "\"{\\\"a\\\": 1}\""],
   [type |-> "unicode", text |-> "", falsy |-> TRUE, json |-> "\"\""],
   [type |-> "unicode", text |-> "a", falsy |-> FALSE, json |-> "\"a\""],
   [type |-> "NoneType", text |-> "None", falsy |-> TRUE, json |-> "null"],
   [type |-> "bool", text |-> "False", falsy |-> TRUE, json |-> "false"],
   [type |-> "bool", text |-> "True", falsy |-> FALSE, json |-> "true"],
   [type |-> "dict", text |-> "{}", falsy |-> TRUE, json |-> "{}"],
   [type |-> "dict", text |-> "{'a': [0.0]}", falsy |-> FALSE, json |-> "{\"a\": [0.0]}"],
   [type |-> "list", text |-> "[]", falsy |-> TRUE, json |-> "[]"],
   [type |-> "list", text |-> "['a']", falsy |-> FALSE, json |-> "[\"a\"]"]}

NoneText == [type |-> "str", text |-> "None", falsy |-> FALSE, json |-> "\"None\""]

\* A tail that would return msg as the handler left it.
KeepFalsy(msg) == msg

\* msg = msg or 'None'
OrNone(msg) == IF msg.falsy THEN NoneText ELSE msg

\* The tail of command_switch: nothing is returned when msg was not set,
\* otherwise a text.
reply(msg) ==
  IF msg.type = "str" /\ msg.text = "DefaultValue"
  THEN [returned |-> FALSE, text |-> ""]
  ELSE LET m == OrNone(msg)
       IN  [returned |-> TRUE,
            text |-> IF m.type # "str" THEN m.json ELSE m.text]

\* _process_data: `if res: self._write(res)`
written(r) == r.returned /\ r.text # ""

call_reply(msg) ==
  /\ call = NoCall
  /\ call' = [fn |-> "reply", msg |-> msg, out |-> reply(msg),
              written |-> written(reply(msg))]
  /\ UNCHANGED <<netVars, hostVars, histVars, tVars, qVars, scene,
                 old_nodes_names_dict, ncmds, cmdOut, assets, units>>

\* ------------------------------------------------------------ query commands
QueryCommands ==
  {"get_location_data", "get_pivot_data", "get_transform_data",
   "get_vertex_data_from_scene_object", "raytrace", "get_parents"}

\* msg as the branch of a query command leaves it for one name that resolves
\* to a node or does not. The three dictionary queries skip a name without a
\* node and dump the dictionary in any case; get_vertex_data_from_scene_object
\* and raytrace assign msg only under `if node:`; get_parents joins the
\* StableNames of the parents, '' for a name without a node.
query(command, resolved) ==
  LET Str(t) == [type |-> "str", text |-> t, falsy |-> t = "", json |-> "\"" \o t \o "\""]
  IN  IF command \in {"get_location_data", "get_pivot_data", "get_transform_data"}
      THEN Str(IF resolved THEN "{'a': [0.0]}" ELSE "{}")
      ELSE IF command = "get_vertex_data_from_scene_object"
      THEN IF resolved THEN Str("{'vertex_positions': []}") ELSE Str("DefaultValue")
      ELSE IF command = "raytrace"
      THEN IF resolved
           THEN [type |-> "dict", text |-> "{'a': [0.0]}", falsy |-> FALSE,
                 json |-> "{\"a\": [0.0]}"]
           ELSE Str("DefaultValue")
      ELSE Str(IF resolved THEN "p#1" ELSE "")

call_query(command, resolved) ==
  /\ call = NoCall
  /\ call' = [fn |-> "query", command |-> command, resolved |-> resolved,
              out |-> reply(query(command, resolved)),
              written |-> written(reply(query(command, resolved)))]
  /\ UNCHANGED <<netVars, hostVars, histVars, tVars, qVars, scene,
                 old_nodes_names_dict, ncmds, cmdOut, assets, units>>

\* --------------------------------------------------------------- get_parents
MaxNames == 3

\* str.split(','), on a text given as its sequence of tokens
RECURSIVE SplitComma(_)
SplitComma(s) ==
  IF \E i \in 1..Len(s) : s[i] = ","
  THEN LET i == CHOOSE j \in 1..Len(s) :
                  s[j] = "," /\ \A k \in 1..(j - 1) : s[k] # ","
       IN  <<SubSeq(s, 1, i - 1)>> \o SplitComma(SubSeq(s, i + 1, Len(s)))
  ELSE <<s>>

\* A list that keeps only the parents that were found.
found_parents(nodes) == SelectSeq(nodes, LAMBDA x : x \notin {"unresolved", "root"})

\* parent_list = _parent_list(nodes);
\* parent_list = [x[0] if x else 'No_Parent' for x in parent_list]
\* nodes holds, for each requested name, the name#uuid of the parent of the
\* node it resolves to, "root" for a node without a parent (listRelatives
\* gives None) and "unresolved" for a name without a node.
parent_list(nodes) ==
  [i \in DOMAIN nodes |->
     IF nodes[i] \in {"unresolved", "root"} THEN "No_Parent" ELSE nodes[i]]

\* The reply to 'get_parents <name>,<name>,...'. No transform is called
\* No_Parent, so node_to_promethean_name makes '' of it. The joined text is
\* unicode as soon as the host supplied a part of it under Python 2, and
\* json.dumps puts such a text between quotes.
get_parents(nodes, py) ==
  LET parents == parent_list(nodes)
      names == [i \in DOMAIN parents |->
                  IF parents[i] = "No_Parent" THEN <<>> ELSE <<parents[i]>>]
      join[i \in 0..Len(names)] ==
        IF i = 0 THEN <<>>
        ELSE IF i = 1 THEN names[1]
        ELSE join[i - 1] \o <<",">> \o names[i]
      msg == join[Len(names)]
      unicode == py = 2 /\ \E i \in DOMAIN names : names[i] # <<>>
  IN  IF msg = <<>> THEN <<"None">>
      ELSE IF unicode THEN <<"\"">> \o msg \o <<"\"">>
      ELSE msg

call_get_parents(nodes, py) ==
  /\ call = NoCall
  /\ call' = [fn |-> "get_parents", nodes |-> nodes, py |-> py,
              out |-> get_parents(nodes, py)]
  /\ UNCHANGED <<netVars, hostVars, histVars, tVars, qVars, scene,
                 old_nodes_names_dict, ncmds, cmdOut, assets, units>>

\* ------------------------------------------- command_switch on several lines
MaxLines == 3

\* for command_str in meta_command_str.split('\n'): a blank line is skipped;
\* drop_asset and load_assets return from the function; a line whose branch
\* set msg (here get_scene_name) returns msg from inside the loop; any other
\* line (here toggle_surface_snapping) leaves msg alone and the loop goes on.
\* ran lists the lines whose branch was taken.
RECURSIVE command_switch_lines(_, _, _)
command_switch_lines(lines, i, ran) ==
  IF i > Len(lines) THEN [ran |-> ran, returned |-> FALSE]
  ELSE IF lines[i] = "" THEN command_switch_lines(lines, i + 1, ran)
  ELSE IF lines[i] \in {"drop_asset", "load_assets"}
  THEN [ran |-> Append(ran, i), returned |-> FALSE]
  ELSE IF lines[i] = "get_scene_name"
  THEN [ran |-> Append(ran, i), returned |-> TRUE]
  ELSE command_switch_lines(lines, i + 1, Append(ran, i))

call_command_switch(lines) ==
  /\ call = NoCall
  /\ call' = [fn |-> "command_switch", lines |-> lines,
              out |-> command_switch_lines(lines, 1, <<>>)]
  /\ UNCHANGED <<netVars, hostVars, histVars, tVars, qVars, scene,
                 old_nodes_names_dict, ncmds, cmdOut, assets, units>>

\* ---------------------------------------------- handlers run on their own
\* ------------------------------------------------------------ reference_asset
\* Placements of assets whose path is a file on disk (or is empty). The scene
\* is what the dedup search sees of it: the promethean_reference attribute of
\* each tagged transform, in the order cmds.ls lists them.
MaxPlacements == 3

AssetPaths == {"", "chair.ma", "table.ma"}

\* A search that finds no tagged transform.
NoExisting(tagged, asset_path) == {}

\* [x for x in cmds.ls('*.promethean_reference', o=True, tr=True)
\*  if cmds.getAttr(x + '.promethean_reference') == asset_path]
existing_transforms(tagged, asset_path) ==
  {i \in DOMAIN tagged : tagged[i] = asset_path}

\* imported is the number of transforms the file holds; more than one are
\* grouped and merged into one before the tag is set. cmds.duplicate copies
\* the attribute with the transform.
reference_asset(st, asset_path, imported) ==
  LET existing == existing_transforms(st.tagged, asset_path)
      first == CHOOSE i \in existing : \A j \in existing : i <= j
      entry(op, of, n) == [asset_path |-> asset_path, op |-> op, of |-> of, imported |-> n]
  IN  IF asset_path = ""
      THEN [st EXCEPT !.log = Append(@, entry("none", 0, 0))]
      ELSE IF existing # {}
      THEN [tagged |-> Append(st.tagged, st.tagged[first]),
            log |-> Append(st.log, entry("duplicate", first, 0))]
      ELSE [tagged |-> Append(st.tagged, asset_path),
            log |-> Append(st.log, entry("import", 0, imported))]

call_reference_asset(asset_path, imported) ==
  /\ call.fn \in {"none", "reference_asset"}
  /\ Len(assets.log) < MaxPlacements
  /\ assets' = reference_asset(assets, asset_path, imported)
  /\ call' = [fn |-> "reference_asset"]
  /\ UNCHANGED <<netVars, hostVars, histVars, tVars, qVars, scene,
                 old_nodes_names_dict, ncmds, cmdOut, units>>

\* reference_asset with a path that is no file on disk: the path is taken as
\* a name#uuid. existing_transforms is the one-element list
\* [get_node_from_promethean_name(asset_path)], which is true in Python also
\* when the element is None, so 'if not existing_transforms: return list()'
\* is never taken and the duplicate branch runs on existing_transforms[0].
\* host: what cmds.listRelatives / cmds.duplicate do with None for the node,
\* raise or work on the current selection.
reference_asset_name(resolved, host) ==
  IF resolved \/ host = "selection"
  THEN [raised |-> FALSE, duplicated |-> 1, new_transforms |-> 1]
  ELSE [raised |-> TRUE, duplicated |-> 0, new_transforms |-> 0]

call_reference_asset_name(resolved, host) ==
  /\ call = NoCall
  /\ call' = [fn |-> "reference_asset_name", resolved |-> resolved,
              out |-> reference_asset_name(resolved, host)]
  /\ UNCHANGED <<netVars, hostVars, histVars, tVars, qVars, scene,
                 old_nodes_names_dict, ncmds, cmdOut, assets, units>>

\* ------------------------------------------------------------ units_multiplier
\* convertUnit(1.0, toUnit='cm') for the working units centimetre and metre.
UnitMultipliers == {1, 100}

MaxUses == 2

set_current_units_multiplier(u) ==
  [u EXCEPT !.units_multiplier = u.host, !.pending = FALSE]

\* The user (or a scene that is opened) changes the working linear unit. The
\* host queues the linearUnitChanged script job; script jobs run when the
\* host is idle.
linearUnitChanged(m) ==
  /\ call.fn \in {"none", "units"}
  /\ m # units.host
  /\ units' = [units EXCEPT !.host = m, !.pending = TRUE]
  /\ call' = [fn |-> "units"]
  /\ UNCHANGED <<netVars, hostVars, histVars, tVars, qVars, scene,
                 old_nodes_names_dict, ncmds, cmdOut, assets>>

\* unit_changed_job: the script job calls set_current_units_multiplier.
unit_changed_job ==
  /\ call.fn = "units"
  /\ units.pending
  /\ units' = set_current_units_multiplier(units)
  /\ UNCHANGED <<netVars, hostVars, histVars, tVars, qVars, scene,
                 old_nodes_names_dict, ncmds, cmdOut, call, assets>>

\* translate: value = [float(x) / units_multiplier ...]; cmds.move takes the
\* value in the host's current unit.
call_translate(x) ==
  /\ call.fn \in {"none", "units"}
  /\ Len(units.used) < MaxUses
  /\ units' = [units EXCEPT !.used =
                 Append(@, [x |-> x, multiplier |-> units.units_multiplier,
                            current |-> units.host,
                            value |-> x \div units.units_multiplier])]
  /\ call' = [fn |-> "units"]
  /\ UNCHANGED <<netVars, hostVars, histVars, tVars, qVars, scene,
                 old_nodes_names_dict, ncmds, cmdOut, assets>>

InitCalls ==
  /\ InitShared
  /\ portOwner = "none"
  /\ mainPc = "idle"
  /\ scene = EmptyScene
  /\ old_nodes_names_dict = {}
  /\ ncmds = 0
  /\ cmdOut = NoOut
  /\ InitNoCalls

\* The inputs of a handler are drawn only while no handler has been called.
NextCalls ==
  \/ \E items \in (IF call = NoCall THEN Batches ELSE {}),
        m \in {1, 100}, py \in Pythons :
       call_add_objects(items, m, py)
  \/ \E view \in (IF call = NoCall THEN Views ELSE {}), geo \in Geometries,
        ignore \in SUBSET Meshes, modelPanel \in BOOLEAN, distance \in {10, 18} :
       call_raytrace(view, geo, ignore, modelPanel, distance)
  \/ \E b \in Vocabulary, ntok \in 1..MaxTokens : call_route(b.command, ntok)
  \/ \E b \in BatchCommands, nodes \in NodeLists, hostRaises \in BOOLEAN :
       call_batch(b, nodes, hostRaises)
  \/ \E msg \in MsgValues : call_reply(msg)
  \/ \E command \in QueryCommands, resolved \in BOOLEAN :
       call_query(command, resolved)
  \/ \E lines \in UNION {[1..n -> {"", "toggle_surface_snapping", "get_scene_name",
                                   "drop_asset"}] : n \in 1..MaxLines} :
       call_command_switch(lines)
  \/ \E asset_path \in AssetPaths, imported \in 1..2 :
       call_reference_asset(asset_path, imported)
  \/ \E nodes \in UNION {[1..n -> {"unresolved", "root", "a#1", "b#2"}] :
                             n \in 1..MaxNames},
        py \in Pythons :
       call_get_parents(nodes, py)
  \/ \E resolved \in BOOLEAN, host \in {"raise", "selection"} :
       call_reference_asset_name(resolved, host)
  \/ \E m \in UnitMultipliers : linearUnitChanged(m)
  \/ unit_changed_job
  \/ \E x \in {100, 200} : call_translate(x)

SpecCalls == InitCalls /\ [][NextCalls]_vars

\* ------------------------------------------------- threaded server, restarted
MaxStarts == 2

\* start_server() is called again from the host (menu, shelf or script) while
\* the threads of the previous start may still be running.
start_server_again ==
  /\ mainPc = "idle"
  /\ Cardinality({i \in DOMAIN startLog : startLog[i] = "bind"}) < MaxStarts
  /\ mainPc' = "start"
  /\ UNCHANGED <<netVars, undoDepth, snap_active, histVars, tVars, qVars, sVars>>

NextRestart ==
  \/ NextT
  \/ start_server_again
  \/ server_thread_late_error

SpecRestart == InitT /\ [][NextRestart]_vars

\* ===================================================================== claims
\* A worker is Dispatching from its dequeue to the return of command_switch.
Dispatching(w) == wpc[w] = "inUndo"

Accepted == {c \in Conns : cstate[c] \in {"accepted", "closed"}}

\* C1 (SpecT): with any number of open connections and any interleaving of
\* their reader threads with the worker, at most one command is Dispatching.
C1_SingleWriter == Cardinality({w \in Workers : Dispatching(w)}) <= 1

\* C1 witness: a command is being dispatched while a command received on
\* another connection waits in command_stack.
C1_Witness ==
  \E w \in Workers :
    /\ Dispatching(w)
    /\ \E i \in DOMAIN command_stack : command_stack[i].conn # witem[w].conn

\* C2 (SpecT), as claimed: a command dispatched by the worker never runs
\* while another mutation started by the bridge (here drop_asset, run by the
\* drop callback on the main thread) is running.
C2_OneExecutionContext ==
  \A w \in Workers : Dispatching(w) => mainPc # "drop"

\* C3 (SpecT): commands are dispatched in exactly the order in which they
\* were appended to the queue, and two commands of one connection are
\* dispatched in the order in which that connection submitted them.
C3_Fifo ==
  /\ Len(log) <= Len(appended)
  /\ \A i \in DOMAIN log :
       [data |-> log[i].line, conn |-> log[i].conn, pos |-> log[i].pos]
         = appended[i]
  /\ \A i, j \in DOMAIN log :
       (i < j /\ log[i].conn = log[j].conn) => log[i].pos < log[j].pos

\* C3 witness: two commands of one connection and a command of another
\* connection have all been dispatched.
C3_Witness ==
  \E i, j, k \in DOMAIN log :
    i < j /\ log[i].conn = log[j].conn /\ log[k].conn # log[i].conn

C5_FailureGetsSentinel ==
  \A i \in DOMAIN log : log[i].result = "raised" => log[i].to = log[i].conn

C7_UndoBalanced == undoDepth = 0

\* C8 (SpecQt), as claimed: a dispatched command that lies in a
\* newline-terminated line sent by the peer is that whole line: it starts
\* where the line starts and ends at the line's newline.
C8_Framing ==
  \A i \in DOMAIN log :
    LET s == sent[log[i].conn]
        first == log[i].pos + 1
        after == log[i].pos + Len(log[i].line) + 1
    IN  (\E n \in after..Len(s) : s[n] = NL)
          => /\ first = 1 \/ s[first - 1] = NL
             /\ s[after] = NL

\* The server has taken the control message out of a connection's stream.
VacateTaken ==
  \E c \in Conns : \E n \in 1..StreamPos(c) :
    <<sent[c][n]>> = vacate_socket_command

\* C9 (SpecQt), as claimed: once the control message was received the
\* listener is shut down, and the message is never handed to command_switch.
C9_VacateShutsDown ==
  /\ VacateTaken => ~Listening
  /\ \A i \in DOMAIN log : log[i].line # vacate_socket_command

\* C10 (SpecQt), as claimed: every bind of a listener comes after the
\* control message was sent to the port and after the pause that follows it.
C10_VacateBeforeBind ==
  \A i \in DOMAIN startLog :
    startLog[i] = "bind"
      => /\ i >= 3
         /\ startLog[i - 2] = "vacate"
         /\ startLog[i - 1] = "sleep"

\* C11 (SpecQt), as claimed: a start makes at most two listen attempts, and
\* the second attempt comes only after the owner of the port was made to
\* vacate: a vacate event lies between the two attempts.
C11_RetryAfterVacate ==
  /\ Cardinality({i \in DOMAIN startLog : startLog[i] = "bind"}) <= 2
  /\ \A i, j \in DOMAIN startLog :
       (i < j /\ startLog[i] = "bind" /\ startLog[j] = "bind")
         => \E k \in (i + 1)..(j - 1) : startLog[k] = "vacate"

\* C12 (SpecT), as claimed: a reader whose recv raised has stopped; no reader
\* is back in its loop after a read error.
C12_ReadErrorStopsReader == \A c \in Conns : rpc[c] # "erred"

C14_SelfHealing ==
  [][cmdOut'.cmd = "get_transform_data"
       => LET name == cmdOut'.names[1]
          IN  /\ HasKey(old_nodes_names_dict', name)
                   => cmds_ls(scene', Get(old_nodes_names_dict', name)) # {}
              /\ old_nodes_names_dict' \subseteq old_nodes_names_dict
              /\ \A e \in old_nodes_names_dict \ old_nodes_names_dict' :
                   e.key = name]_vars

\* A resolution dropped the stale entry of its name and left another entry
\* in the table.
C14_Witness ==
  /\ cmdOut.cmd = "get_transform_data"
  /\ cmdOut.evicted = {cmdOut.names[1]}
  /\ old_nodes_names_dict # {}

\* C15 (SpecScene), as claimed: after a rename, the name the renamed
\* transform had just before it still resolves to that transform, whatever
\* the table holds.
C15_IdentityStable ==
  (cmdOut.cmd = "rename" /\ cmdOut.obj # NoObj)
    => ObjOf(scene, get_node_from_promethean_name(scene, old_nodes_names_dict,
                                                  cmdOut.old).node) = cmdOut.obj

\* C16 (SpecScene), as claimed: after set_mesh replaced a target, the
\* target's old name resolves to the replacement.
C16_SwapRedirects ==
  (cmdOut.cmd = "set_mesh" /\ cmdOut.new # NoObj)
    => ObjOf(scene, get_node_from_promethean_name(scene, old_nodes_names_dict,
                                                  cmdOut.old).node) = cmdOut.new

\* C17 (SpecScene), as claimed: when set_mesh has dealt with a target, none
\* of the target's child transforms was deleted, and a replacement has the
\* target's former parent and former children.
C17_SwapKeepsHierarchy ==
  (cmdOut.cmd = "set_mesh" /\ cmdOut.obj # NoObj)
    => /\ cmdOut.kids \subseteq scene.live
       /\ cmdOut.new # NoObj
            => /\ cmdOut.new \in scene.live
               /\ scene.parent[cmdOut.new] = cmdOut.par
               /\ \A k \in cmdOut.kids : scene.parent[k] = cmdOut.new

\* C18 (SpecScene), as claimed: after a remove command no table entry has a
\* target the command deleted, be it stored as a node name or as label#uuid.
C18_RemovePurgesTable ==
  cmdOut.cmd = "remove"
    => \A e \in old_nodes_names_dict, i \in DOMAIN cmdOut.ops :
         /\ e.val.text = "node" => e.val.path # cmdOut.ops[i].path
         /\ e.val.text = "p_name" => e.val.name.id # cmdOut.ops[i].obj

C20_ReparentSkipsChildren ==
  cmdOut.cmd = "parent"
    => \A i \in DOMAIN cmdOut.ops : cmdOut.ops[i].already = {}

\* C21 (SpecCalls), as claimed: an item add_object rejects is not in the
\* returned mapping, and every other item of the batch that is not rejected
\* itself is created and is in the returned mapping.
C21_RejectionKeepsBatch ==
  call.fn = "add_objects"
    => \A i \in DOMAIN call.items :
         call.results[i].status = "rejected"
           => /\ i \notin call.return_dict
              /\ \A j \in DOMAIN call.items \ {i} :
                   call.results[j].status # "rejected"
                     => /\ call.results[j].status = "created"
                        /\ j \in call.return_dict

\* C22 (SpecCalls), as claimed: when a raytrace distance is given and the ray
\* hits nothing the object is created at the converted input location with
\* the input rotation; and a placement is given up or fails only when a
\* reject threshold is given and the hit's dot product is below it.
C22_RaytraceFallback ==
  call.fn = "add_objects"
    => \A i \in DOMAIN call.items :
         LET it == call.items[i]
             r == call.results[i]
         IN  r.status # "not_reached"
               => /\ (Truthy(it.raytrace_distance) /\ it.hit_dot = Absent)
                       => /\ r.status = "created"
                          /\ r.location = it.location \div call.m
                          /\ r.rotation = "input"
                          /\ ~r.y_rotation
                  /\ r.status # "created"
                       => /\ it.raytrace_alignment_mask # Absent
                          /\ it.hit_dot # Absent
                          /\ it.hit_dot < it.raytrace_alignment_mask

\* C23 (SpecCalls), as claimed: for a hit with dot product d, align threshold
\* a and reject threshold r, the placement is given up iff d < r; otherwise
\* the object is turned to the normal and the yaw re-applied iff d > a, and
\* the input rotation is kept when d <= a.
C23_AlignmentPolicy ==
  call.fn = "add_objects"
    => \A i \in DOMAIN call.items :
         LET it == call.items[i]
             r == call.results[i]
             d == it.hit_dot
         IN  (/\ r.status # "not_reached"
              /\ Truthy(it.raytrace_distance) /\ d # Absent
              /\ it.raytrace_alignment # Absent
              /\ it.raytrace_alignment_mask # Absent)
               => /\ r.status = "rejected" <=> d < it.raytrace_alignment_mask
                  /\ r.status # "rejected"
                       => /\ r.status = "created"
                          /\ (r.rotation = "normal" /\ r.y_rotation)
                               <=> d > it.raytrace_alignment
                          /\ d <= it.raytrace_alignment => r.rotation = "input"

\* C24 (SpecCalls), as claimed: raytrace returns the hit closest to the
\* origin among the meshes in view that are not ignored and are met within
\* the maximum distance, the first listed among equally close ones; it
\* returns no hit when there is none or the panel is no model panel.
C24_ClosestHit ==
  call.fn = "raytrace"
    => LET cands == {i \in DOMAIN call.view :
                       /\ call.view[i] \notin call.ignore
                       /\ call.geo[call.view[i]] # Absent
                       /\ call.geo[call.view[i]] <= call.distance}
       IN  IF cands = {} \/ ~call.modelPanel
           THEN call.hit = NoHit
           ELSE /\ call.hit.object \notin call.ignore
                /\ \E i \in cands :
                     /\ call.hit.object = call.view[i]
                     /\ call.hit.distance = call.geo[call.view[i]]
                     /\ \A j \in cands :
                          \/ call.geo[call.view[i]] < call.geo[call.view[j]]
                          \/ call.geo[call.view[i]] = call.geo[call.view[j]] /\ i <= j

\* C26 (SpecCalls), as claimed: a line with fewer tokens than the handler of
\* its command reads goes to the passthrough branch, and no typed handler
\* raises on it.
C26_MissingArguments ==
  call.fn = "route"
    => /\ call.ntok <= call.reads => call.out.branch = "passthrough"
       /\ ~call.out.raised

\* C27 (SpecCalls), as claimed: no host call of a batch command is given a
\* name that did not resolve, none raises because of one, and every node that
\* did resolve is processed.
C27_MissesSkipped ==
  call.fn = "batch"
    => /\ \A i \in DOMAIN call.out.passed : call.out.passed[i] # NoObj
       /\ ~call.out.raised
       /\ \A i \in DOMAIN call.nodes :
            call.nodes[i] # NoObj
              => \E k \in DOMAIN call.out.passed : call.out.passed[k] = call.nodes[i]

\* C28 (SpecCalls): what command_switch returns is nothing or a text that is
\* not empty: 'None' for a falsy msg, the JSON text for any other msg that is
\* not a str, the msg itself otherwise; and nothing empty is written.
C28_ReplyValue ==
  call.fn = "reply"
    => /\ call.out.returned => call.out.text # ""
       /\ (call.out.returned /\ call.msg.falsy) => call.out.text = "None"
       /\ (call.out.returned /\ ~call.msg.falsy)
            => call.out.text = IF call.msg.type = "str" THEN call.msg.text
                               ELSE call.msg.json
       /\ call.written <=> call.out.returned

\* A handler left an empty text in msg and 'None' was returned and written.
C28_Witness ==
  /\ call.fn = "reply"
  /\ call.msg.type = "str" /\ call.msg.text = ""
  /\ call.out.returned /\ call.out.text = "None"
  /\ call.written

C29_FreshMultiplier ==
  \A i \in DOMAIN units.used : units.used[i].multiplier = units.used[i].current

\* C30 (SpecRestart), as claimed: whatever starts and closes have happened,
\* at most one thread is running execute_command_stack.
C30_SingleWorkerAcrossRestarts ==
  Cardinality({w \in Workers : wpc[w] \notin {"off", "exited"}}) <= 1

\* C31 (SpecRestart), as claimed: while the listener that start_server bound
\* is open, server_socket refers to it and an accept loop is running on it.
C31_ListenerSurvives ==
  sockOpen => server_socket = "socket" /\ acceptPc \in {"accept", "accept2"}

\* C32 (SpecT), as claimed: a command being dispatched finds its connection
\* open; no command of a closed connection is waiting in the queue; and the
\* reader of a closed connection is not back in its loop.
C32_ConnectionOpenAtDispatch ==
  /\ \A w \in Workers : Dispatching(w) => cstate[witem[w].conn] # "closed"
  /\ \A c \in Conns :
       cstate[c] = "closed"
         => /\ \A i \in DOMAIN command_stack : command_stack[i].conn # c
            /\ rpc[c] # "erred"

\* C33 (SpecT), as claimed: a recognised command the worker has dispatched
\* did not fail: the log entry of toggle_surface_snapping, sent alone in one
\* chunk, is not "raised".
C33_RecognisedCommandApplied ==
  \A i \in DOMAIN log :
    log[i].line = toggle_surface_snapping \o <<NL>> => log[i].result # "raised"

\* C34 (SpecQtLive), as claimed: whatever an open connection has sent and
\* the server has not yet dispatched is eventually read and dispatched.
C34_EveryLineDispatched ==
  \A c \in Conns :
    (cstate[c] = "accepted" /\ c \in q_slots /\ (wire[c] # <<>> \/ avail[c] # <<>>))
      ~> (wire[c] = <<>> /\ avail[c] = <<>>)

\* C35 (SpecCalls), as claimed: a query command returns a reply, and the
\* reply is written, whether or not its name resolves.
C35_QueryAlwaysReplies ==
  call.fn = "query" => call.out.returned /\ call.written

\* C37 (SpecCalls), as claimed: command_switch takes the branch of every
\* line of its argument that is not blank, in the order of the lines.
C37_EveryLineDispatched ==
  call.fn = "command_switch"
    => LET ran == call.out.ran
           wanted == {i \in DOMAIN call.lines : call.lines[i] # ""}
       IN  /\ {ran[k] : k \in DOMAIN ran} = wanted
           /\ \A j, k \in DOMAIN ran : j < k => ran[j] < ran[k]

\* C38 (SpecScene), as claimed: a set_mesh whose target already has the
\* requested path removes nothing, creates nothing and adds no table entry;
\* and when a set_mesh that replaced its target is sent again with the same
\* name#uuid, the second one raises no error and changes neither scene nor
\* table.
C38_SetMeshIdempotent ==
  [][/\ (cmdOut'.cmd = "set_mesh" /\ cmdOut'.same /\ ncmds' # ncmds)
          => /\ scene' = scene
             /\ old_nodes_names_dict' \subseteq old_nodes_names_dict
     /\ (/\ cmdOut.cmd = "set_mesh" /\ cmdOut.new # NoObj
         /\ cmdOut.names[1].id # 0
         /\ cmdOut'.cmd = "set_mesh" /\ cmdOut'.names = cmdOut.names
         /\ ncmds' # ncmds)
          => /\ ~cmdOut'.raised
             /\ scene' = scene
             /\ old_nodes_names_dict' \subseteq old_nodes_names_dict]_vars

\* C36 (SpecScene), as claimed: in every reachable scene and table, the
\* name#uuid of every live transform resolves to that transform.
C36_NameRoundTrip ==
  \A o \in scene.live :
    ObjOf(scene,
          get_node_from_promethean_name(
            scene, old_nodes_names_dict,
            node_to_promethean_name(scene, Path(scene, o))).node) = o

\* C39 (SpecCalls), as claimed: reference_asset with a path that is neither
\* a file nor a name that resolves returns an empty list, duplicates nothing
\* and raises nothing.
C39_UnresolvedReturnsEmpty ==
  (call.fn = "reference_asset_name" /\ ~call.resolved)
    => /\ ~call.out.raised
       /\ call.out.duplicated = 0
       /\ call.out.new_transforms = 0

\* C40 (SpecCalls): the reply to get_parents has exactly one comma-separated
\* element per requested name, in the order of the request: the element of a
\* name whose node has a parent holds that parent's name#uuid, the element of
\* any other name holds no name.
C40_OneElementPerName ==
  call.fn = "get_parents"
    => LET elements == SplitComma(call.out)
       IN  /\ Len(elements) = Len(call.nodes)
           /\ \A i \in DOMAIN call.nodes :
                \A p \in {"a#1", "b#2"} :
                  (\E k \in DOMAIN elements[i] : elements[i][k] = p)
                    <=> call.nodes[i] = p

\* Three names were asked for: one without a node, one whose node has the
\* parent a#1, one whose node has no parent; the reply has three elements
\* and the second holds a#1.
C40_Witness ==
  /\ call.fn = "get_parents"
  /\ call.nodes = <<"unresolved", "a#1", "root">>
  /\ call.out = <<",", "a#1", ",">>

====
